---- MODULE Spec2Model ----
(***************************************************************************)
(* Role Prompt Generator API (backend/main.py).                            *)
(*                                                                         *)
(* POST /api/generate: FastAPI validates the body against GenerateRequest, *)
(* generate_prompt hands the adapter bound to req.provider to a            *)
(* ThreadPoolExecutor, awaits its future and turns the result or the       *)
(* exception into an HTTP response.                                        *)
(*                                                                         *)
(* Text is a sequence of characters, each character a one-element string;  *)
(* a character outside ASCII is written as its code point ("U+8C03").      *)
(* A request string of which the code reads only the length (role_input,   *)
(* api_key, model) is modelled by that length.                             *)
(***************************************************************************)
EXTENDS Integers, Sequences, FiniteSets, TLC

VARIABLES
    SYSTEM_PROMPT, \* the module global of main.py:24
    pc,            \* request -> position of its handler
    req,           \* request -> the parsed body
    queue,         \* the executor's work queue (FIFO) of submitted calls
    calls,         \* request -> the adapter invocations made for it, in order
    outcome,       \* request -> what the adapter call returned or raised
    response       \* request -> the HTTP response sent

vars == <<SYSTEM_PROMPT, pc, req, queue, calls, outcome, response>>

----------------------------------------------------------------------------
(* Program constants *)

max_workers == 10

role_input_min_length == 1

role_input_max_length == 500

api_key_min_length == 1

model_min_length == 1

(* Bounds of the model *)

\* concurrent requests of Spec
NReq == 3

\* role_input lengths probed beyond max_length (ValidateSpec)
Over == 1

\* requests beyond the pool's capacity (PoolSpec)
Extra == 1

----------------------------------------------------------------------------
(* Text *)

ASCII_UPPER ==
    [A |-> "a", B |-> "b", C |-> "c", D |-> "d", E |-> "e", F |-> "f", G |-> "g",
     H |-> "h", I |-> "i", J |-> "j", K |-> "k", L |-> "l", M |-> "m", N |-> "n",
     O |-> "o", P |-> "p", Q |-> "q", R |-> "r", S |-> "s", T |-> "t", U |-> "u",
     V |-> "v", W |-> "w", X |-> "x", Y |-> "y", Z |-> "z"]

\* (An argument that is used more than once is bound by a quantifier over a
\* one-element set, so that it is evaluated once.)

\* str.lower(), character by character
lower(s) ==
    CHOOSE low \in {[i \in 1..Len(t) |->
                       IF t[i] \in DOMAIN ASCII_UPPER THEN ASCII_UPPER[t[i]] ELSE t[i]] :
                   t \in {s}} : TRUE

\* Python's `sub in s` on strings
In(sub, s) ==
    \E t \in {s} :
        \E i \in 0..(Len(t) - Len(sub)) : SubSeq(t, i + 1, i + Len(sub)) = sub

NoText == <<>>

\* the literal of main.py:24-94, kept as one opaque character
SYSTEM_PROMPT_LITERAL == <<"SYSTEM_PROMPT[main.py:24-94]">>

\* f"...{req.role_input}": the fixed wrapper before the role description
USER_PREFIX ==
    <<"U+8BF7", "U+4E3A", "U+4EE5", "U+4E0B", "U+89D2", "U+8272", "U+751F", "U+6210", "U+4E13", "U+4E1A", "U+7684", "U+63D0", "U+793A", "U+8BCD", "U+FF1A">>

GEMINI_ERROR_PREFIX ==
    <<"G", "e", "m", "i", "n", "i", " ", "A", "P", "I", " ", "U+8C03", "U+7528", "U+5931", "U+8D25", ":", " ">>

----------------------------------------------------------------------------
(* Exceptions: the classes the except clauses of generate_prompt name, and  *)
(* the classes the three client libraries and the adapters' own code raise. *)
(* Each class is named with its module, since openai and google.genai both  *)
(* have an APIError.                                                        *)

\* class -> its base class
BASES ==
    [x \in {"fastapi.HTTPException", "openai.OpenAIError", "httpx.HTTPError",
            "LookupError", "genai.errors.APIError"} |-> "Exception"]
    @@ ("openai.APIError" :> "openai.OpenAIError")
    @@ ("openai.APIStatusError" :> "openai.APIError")
    @@ ("openai.APIConnectionError" :> "openai.APIError")
    @@ ("openai.APITimeoutError" :> "openai.APIConnectionError")
    @@ ("openai.AuthenticationError" :> "openai.APIStatusError")
    @@ ("openai.RateLimitError" :> "openai.APIStatusError")
    @@ ("openai.BadRequestError" :> "openai.APIStatusError")
    @@ ("httpx.HTTPStatusError" :> "httpx.HTTPError")
    @@ ("httpx.RequestError" :> "httpx.HTTPError")
    @@ ("httpx.TransportError" :> "httpx.RequestError")
    @@ ("httpx.TimeoutException" :> "httpx.TransportError")
    @@ ("httpx.ReadTimeout" :> "httpx.TimeoutException")
    @@ ("IndexError" :> "LookupError")
    @@ ("KeyError" :> "LookupError")
    @@ ("genai.errors.ClientError" :> "genai.errors.APIError")
    @@ ("genai.errors.ServerError" :> "genai.errors.APIError")

\* isinstance(e, cls), which is what `except cls` tests
RECURSIVE isinstance(_, _)
isinstance(type, cls) ==
    IF type = cls THEN TRUE
    ELSE IF type \in DOMAIN BASES THEN isinstance(BASES[type], cls)
    ELSE FALSE

\* type(e).__name__ of the classes that are raised
TYPE_NAMES ==
    {
      <<"fastapi.HTTPException", <<"H", "T", "T", "P", "E", "x", "c", "e", "p", "t", "i", "o", "n">>>>,
      <<"openai.AuthenticationError", <<"A", "u", "t", "h", "e", "n", "t", "i", "c", "a", "t", "i", "o", "n", "E", "r", "r", "o", "r">>>>,
      <<"openai.RateLimitError", <<"R", "a", "t", "e", "L", "i", "m", "i", "t", "E", "r", "r", "o", "r">>>>,
      <<"openai.BadRequestError", <<"B", "a", "d", "R", "e", "q", "u", "e", "s", "t", "E", "r", "r", "o", "r">>>>,
      <<"openai.APITimeoutError", <<"A", "P", "I", "T", "i", "m", "e", "o", "u", "t", "E", "r", "r", "o", "r">>>>,
      <<"httpx.HTTPStatusError", <<"H", "T", "T", "P", "S", "t", "a", "t", "u", "s", "E", "r", "r", "o", "r">>>>,
      <<"httpx.ReadTimeout", <<"R", "e", "a", "d", "T", "i", "m", "e", "o", "u", "t">>>>,
      <<"IndexError", <<"I", "n", "d", "e", "x", "E", "r", "r", "o", "r">>>>,
      <<"KeyError", <<"K", "e", "y", "E", "r", "r", "o", "r">>>>,
      <<"genai.errors.ClientError", <<"C", "l", "i", "e", "n", "t", "E", "r", "r", "o", "r">>>>,
      <<"genai.errors.ServerError", <<"S", "e", "r", "v", "e", "r", "E", "r", "r", "o", "r">>>>,
      <<"Exception", <<"E", "x", "c", "e", "p", "t", "i", "o", "n">>>>
    }

type_name(type) == (CHOOSE p \in TYPE_NAMES : p[1] = type)[2]

NoExc == [type |-> "None", msg |-> NoText, status_code |-> 0, body |-> NoText, detail |-> NoText]

\* An exception an adapter raises: its class, str(e) (which is e.message of an
\* openai.APIError), and for an error that carries an HTTP response,
\* e.response.status_code and e.response.text
Exc(type, msg, status_code, body) ==
    [type |-> type, msg |-> msg, status_code |-> status_code, body |-> body,
     detail |-> NoText]

\* fastapi.HTTPException(status_code=..., detail=...)
HTTPException(status_code, detail) ==
    [type |-> "fastapi.HTTPException", msg |-> NoText, status_code |-> status_code,
     body |-> NoText, detail |-> detail]

Return(text) == [kind |-> "return", text |-> text, exc |-> NoExc]

Raise(exc) == [kind |-> "raise", text |-> NoText, exc |-> exc]

NoOutcome == [kind |-> "none", text |-> NoText, exc |-> NoExc]

----------------------------------------------------------------------------
(* What the provider answers to one call.                                   *)
(*   reply : the call succeeded; the generated text is `text`, or absent    *)
(*           (None, no content block) when `absent`                         *)
(*   status: an HTTP response whose status is an error (Anthropic path)     *)
(*   error : the client library raised `exc`                                *)

Reply(absent, text) == [kind |-> "reply", absent |-> absent, text |-> text, exc |-> NoExc]

Failure(kind, exc) == [kind |-> kind, absent |-> TRUE, text |-> NoText, exc |-> exc]

\* `x or ""`
or_empty(up) == IF up.absent \/ up.text = NoText THEN NoText ELSE up.text

_generate_with_openai(up) ==
    IF up.kind = "reply"
    THEN Return(or_empty(up))
    ELSE Raise(up.exc)

_generate_with_claude(up) ==
    IF up.kind = "status"
    THEN Raise(Exc("httpx.HTTPStatusError", up.exc.msg, up.exc.status_code, up.exc.body))
    ELSE IF up.kind = "reply"
    THEN Return(or_empty(up))
    ELSE Raise(up.exc)

_generate_with_gemini(up) ==
    IF up.kind = "reply"
    THEN Return(or_empty(up))
    ELSE Raise(Exc("Exception",
                   GEMINI_ERROR_PREFIX \o up.exc.msg \o <<" ", "(">>
                       \o type_name(up.exc.type) \o <<")">>,
                   0, NoText))

----------------------------------------------------------------------------
(* The request body and its validation (GenerateRequest) *)

PROVIDERS == {"openai", "gemini", "claude"}

\* valid with max_length taken as an exclusive bound
valid_exclusive_max(q) ==
    /\ q.role_input >= role_input_min_length
    /\ q.role_input < role_input_max_length
    /\ q.provider \in {"openai", "gemini", "claude"}
    /\ q.api_key >= api_key_min_length
    /\ q.model >= model_min_length

\* pydantic's check of the Field constraints; a string field is its length
valid(q) ==
    /\ q.role_input >= role_input_min_length
    /\ q.role_input <= role_input_max_length
    /\ q.provider \in PROVIDERS
    /\ q.api_key >= api_key_min_length
    /\ q.model >= model_min_length

NoRequest == [role_input |-> 0, provider |-> "none", api_key |-> 0,
              base_url |-> "None", model |-> 0]

----------------------------------------------------------------------------
(* The detail strings of generate_prompt *)

\* main.py:177
DETAIL_BAD_PROVIDER ==
    <<"U+4E0D", "U+652F", "U+6301", "U+7684", " ", "A", "I", " ", "U+63D0", "U+4F9B", "U+5546">>

\* main.py:180
DETAIL_EMPTY ==
    <<"U+751F", "U+6210", "U+7ED3", "U+679C", "U+4E3A", "U+7A7A", "U+FF0C", "U+8BF7", "U+91CD", "U+8BD5">>

\* main.py:187
DETAIL_OPENAI_KEY ==
    <<"O", "p", "e", "n", "A", "I", " ", "A", "P", "I", " ", "K", "e", "y", " ", "U+65E0", "U+6548">>

\* main.py:189
DETAIL_OPENAI_RATE ==
    <<"O", "p", "e", "n", "A", "I", " ", "U+8BF7", "U+6C42", "U+9891", "U+7387", "U+8D85", "U+9650", "U+FF0C", "U+8BF7", "U+7A0D", "U+540E", "U+91CD", "U+8BD5">>

\* main.py:191
DETAIL_OPENAI_SERVICE ==
    <<"O", "p", "e", "n", "A", "I", " ", "U+670D", "U+52A1", "U+9519", "U+8BEF", ":", " ">>

\* main.py:195
DETAIL_CLAUDE_KEY ==
    <<"C", "l", "a", "u", "d", "e", " ", "A", "P", "I", " ", "K", "e", "y", " ", "U+65E0", "U+6548">>

\* main.py:197
DETAIL_CLAUDE_RATE ==
    <<"C", "l", "a", "u", "d", "e", " ", "U+8BF7", "U+6C42", "U+9891", "U+7387", "U+8D85", "U+9650", "U+FF0C", "U+8BF7", "U+7A0D", "U+540E", "U+91CD", "U+8BD5">>

\* main.py:198
DETAIL_CLAUDE_SERVICE ==
    <<"C", "l", "a", "u", "d", "e", " ", "U+670D", "U+52A1", "U+9519", "U+8BEF", ":", " ">>

\* main.py:204
DETAIL_KEY ==
    <<"A", "P", "I", " ", "K", "e", "y", " ", "U+65E0", "U+6548", "U+6216", "U+5DF2", "U+8FC7", "U+671F", " ", "(">>

\* main.py:206
DETAIL_RATE ==
    <<"U+8BF7", "U+6C42", "U+9891", "U+7387", "U+8D85", "U+9650", "U+FF0C", "U+8BF7", "U+7A0D", "U+540E", "U+91CD", "U+8BD5", " ", "(">>

\* main.py:208
DETAIL_TIMEOUT ==
    <<"U+8BF7", "U+6C42", "U+8D85", "U+65F6", "U+FF0C", "U+8BF7", "U+91CD", "U+8BD5", " ", "(">>

\* main.py:210
DETAIL_FAILED ==
    <<"U+751F", "U+6210", "U+5931", "U+8D25", ":", " ">>

----------------------------------------------------------------------------
(* generate_prompt *)

\* dispatch with the gemini branch missing: anything else falls to claude
dispatch_no_gemini(provider) ==
    IF provider = "openai" THEN "_generate_with_openai"
    ELSE "_generate_with_claude"

\* the if/elif chain on req.provider: the adapter handed to run_in_executor
dispatch(provider) ==
    IF provider = "openai" THEN "_generate_with_openai"
    ELSE IF provider = "claude" THEN "_generate_with_claude"
    ELSE IF provider = "gemini" THEN "_generate_with_gemini"
    ELSE "none"

\* what the worker thread runs: the adapter on the provider's answer
run_adapter(fn, up) ==
    IF fn = "_generate_with_openai" THEN _generate_with_openai(up)
    ELSE IF fn = "_generate_with_claude" THEN _generate_with_claude(up)
    ELSE _generate_with_gemini(up)

\* f"<wrapper>{req.role_input}": the user text, role_input being its length
user_content(q) == [prefix |-> USER_PREFIX, role_input |-> q.role_input]

\* upstream_call with the role description appended to the template
upstream_call_grown_template(fn, q, template) ==
    [adapter |-> "_generate_with_claude", model |-> q.model, base_url |-> q.base_url,
     system |-> template \o USER_PREFIX,
     messages |-> <<[role |-> "user", content |-> user_content(q)]>>]

\* The upstream request each adapter builds for body q, `template` being the
\* value of SYSTEM_PROMPT it reads: OpenAI gets a system and a user message,
\* Anthropic a system field and a user message, Gemini one contents string,
\* the template, a blank line and the user text.
upstream_call(fn, q, template) ==
    IF fn = "_generate_with_openai"
    THEN [adapter |-> fn, model |-> q.model,
          base_url |-> IF q.base_url = "None" THEN "https://api.openai.com/v1"
                       ELSE q.base_url,
          messages |-> <<[role |-> "system", content |-> template],
                         [role |-> "user", content |-> user_content(q)]>>]
    ELSE IF fn = "_generate_with_claude"
    THEN [adapter |-> fn, model |-> q.model,
          base_url |-> IF q.base_url = "None" THEN "https://api.anthropic.com"
                       ELSE q.base_url,
          system |-> template,
          messages |-> <<[role |-> "user", content |-> user_content(q)]>>]
    ELSE [adapter |-> fn, model |-> q.model, base_url |-> q.base_url,
          contents |-> <<template, <<"\n", "\n">>, user_content(q)>>]

\* the template an upstream request carries
template_of(call) ==
    IF call.adapter = "_generate_with_openai" THEN call.messages[1].content
    ELSE IF call.adapter = "_generate_with_claude" THEN call.system
    ELSE call.contents[1]

\* try_body without the `if not prompt` check
try_body_no_empty_check(out) ==
    IF out.kind = "raise" THEN out ELSE Return(out.text)

\* the try body after the await: the awaited future re-raises what the adapter
\* raised; an empty prompt raises HTTPException(500)
try_body(out) ==
    IF out.kind = "raise" THEN out
    ELSE IF out.text = NoText THEN Raise(HTTPException(500, DETAIL_EMPTY))
    ELSE Return(out.text)

\* "authentication" in error_msg.lower() or "api key" in error_msg.lower()
\*     or "401" in error_msg
is_auth_msg(error_msg) ==
    \E low \in {lower(error_msg)} :
        \/ In(<<"a", "u", "t", "h", "e", "n", "t", "i", "c", "a", "t", "i", "o", "n">>, low)
        \/ In(<<"a", "p", "i", " ", "k", "e", "y">>, low)
        \/ In(<<"4", "0", "1">>, error_msg)

\* "rate" in error_msg.lower() or "quota" in error_msg.lower() or "429" in error_msg
is_rate_msg(error_msg) ==
    \E low \in {lower(error_msg)} :
        \/ In(<<"r", "a", "t", "e">>, low)
        \/ In(<<"q", "u", "o", "t", "a">>, low)
        \/ In(<<"4", "2", "9">>, error_msg)

\* "timeout" in error_msg.lower()
is_timeout_msg(error_msg) ==
    In(<<"t", "i", "m", "e", "o", "u", "t">>, lower(error_msg))

\* except_Exception with its three message tests in the reverse order
except_Exception_reordered(e) ==
    LET error_type == type_name(e.type)
        error_msg == e.msg
    IN  IF is_timeout_msg(error_msg)
        THEN HTTPException(504, DETAIL_TIMEOUT \o error_type \o <<")">>)
        ELSE IF is_rate_msg(error_msg)
        THEN HTTPException(429, DETAIL_RATE \o error_type \o <<")">>)
        ELSE IF is_auth_msg(error_msg)
        THEN HTTPException(401, DETAIL_KEY \o error_type \o <<")">>)
        ELSE HTTPException(500, DETAIL_FAILED \o error_msg \o <<" ", "(">>
                                    \o error_type \o <<")">>)

\* `except Exception as e:` and its message heuristics
except_Exception(e) ==
    LET error_type == type_name(e.type)
        error_msg == e.msg
    IN  IF is_auth_msg(error_msg)
        THEN HTTPException(401, DETAIL_KEY \o error_type \o <<")">>)
        ELSE IF is_rate_msg(error_msg)
        THEN HTTPException(429, DETAIL_RATE \o error_type \o <<")">>)
        ELSE IF is_timeout_msg(error_msg)
        THEN HTTPException(504, DETAIL_TIMEOUT \o error_type \o <<")">>)
        ELSE HTTPException(500, DETAIL_FAILED \o error_msg \o <<" ", "(">>
                                    \o error_type \o <<")">>)

\* except_HTTPStatusError without the test for 401
except_HTTPStatusError_no_401(e) ==
    IF e.status_code = 429 THEN HTTPException(429, DETAIL_CLAUDE_RATE)
    ELSE HTTPException(502, DETAIL_CLAUDE_SERVICE \o e.body)

\* `except httpx.HTTPStatusError as e:`
except_HTTPStatusError(e) ==
    LET status == e.status_code
    IN  IF status = 401 THEN HTTPException(401, DETAIL_CLAUDE_KEY)
        ELSE IF status = 429 THEN HTTPException(429, DETAIL_CLAUDE_RATE)
        ELSE HTTPException(502, DETAIL_CLAUDE_SERVICE \o e.body)

\* except_clauses without the final `except Exception`
except_clauses_no_catch_all(e) ==
    IF isinstance(e.type, "fastapi.HTTPException") THEN e
    ELSE IF isinstance(e.type, "openai.AuthenticationError")
    THEN HTTPException(401, DETAIL_OPENAI_KEY)
    ELSE IF isinstance(e.type, "openai.RateLimitError")
    THEN HTTPException(429, DETAIL_OPENAI_RATE)
    ELSE IF isinstance(e.type, "openai.APIError")
    THEN HTTPException(502, DETAIL_OPENAI_SERVICE \o e.msg)
    ELSE IF isinstance(e.type, "httpx.HTTPStatusError")
    THEN except_HTTPStatusError(e)
    ELSE e

\* except_clauses with the message heuristics tried before the typed clauses
except_clauses_heuristics_first(e) ==
    IF isinstance(e.type, "fastapi.HTTPException") THEN e
    ELSE IF is_auth_msg(e.msg) \/ is_rate_msg(e.msg)
    THEN except_Exception(e)
    ELSE IF isinstance(e.type, "openai.AuthenticationError")
    THEN HTTPException(401, DETAIL_OPENAI_KEY)
    ELSE IF isinstance(e.type, "openai.RateLimitError")
    THEN HTTPException(429, DETAIL_OPENAI_RATE)
    ELSE IF isinstance(e.type, "openai.APIError")
    THEN HTTPException(502, DETAIL_OPENAI_SERVICE \o e.msg)
    ELSE IF isinstance(e.type, "httpx.HTTPStatusError")
    THEN except_HTTPStatusError(e)
    ELSE except_Exception(e)

\* the except clauses in their order: the exception that leaves generate_prompt
except_clauses(e) ==
    IF isinstance(e.type, "fastapi.HTTPException") THEN e
    ELSE IF isinstance(e.type, "openai.AuthenticationError")
    THEN HTTPException(401, DETAIL_OPENAI_KEY)
    ELSE IF isinstance(e.type, "openai.RateLimitError")
    THEN HTTPException(429, DETAIL_OPENAI_RATE)
    ELSE IF isinstance(e.type, "openai.APIError")
    THEN HTTPException(502, DETAIL_OPENAI_SERVICE \o e.msg)
    ELSE IF isinstance(e.type, "httpx.HTTPStatusError")
    THEN except_HTTPStatusError(e)
    ELSE IF isinstance(e.type, "Exception")
    THEN except_Exception(e)
    ELSE e

NoResponse == [status |-> 0, detail |-> NoText, prompt |-> NoText]

\* GenerateResponse(prompt=prompt), sent with 200
GenerateResponse(prompt) == [status |-> 200, detail |-> NoText, prompt |-> prompt]

\* what FastAPI sends for the exception that leaves the handler: an HTTPException
\* becomes its status and detail, anything else is an unhandled server error
error_response(e) ==
    IF isinstance(e.type, "fastapi.HTTPException")
    THEN [status |-> e.status_code, detail |-> e.detail, prompt |-> NoText]
    ELSE [status |-> -1, detail |-> NoText, prompt |-> NoText]

\* FastAPI's answer to a body that fails validation
validation_error_response == [status |-> 422, detail |-> <<"d", "e", "t", "a", "i", "l">>,
                              prompt |-> NoText]

\* generate_prompt from the point where the awaited future is done
resume(out) ==
    LET r == try_body(out)
    IN  IF r.kind = "return" THEN GenerateResponse(r.text)
        ELSE error_response(except_clauses(r.exc))

----------------------------------------------------------------------------
(* The state machine *)

Reqs == DOMAIN pc

\* busy with a worker thread never given back after its call
busy_never_released == Cardinality({r \in Reqs : pc[r] \in {"running", "finished", "done"}})

\* worker threads of the executor that are running an adapter
busy == Cardinality({r \in Reqs : pc[r] = "running"})

\* worker_free of a pool of one thread (or of an adapter run on the event loop)
worker_free_single == busy < 1

\* a worker thread takes the next work item only when one of the max_workers
\* threads is free
worker_free == busy < max_workers

Init(n) ==
    /\ SYSTEM_PROMPT = SYSTEM_PROMPT_LITERAL
    /\ pc = [r \in 1..n |-> "idle"]
    /\ req = [r \in 1..n |-> NoRequest]
    /\ queue = <<>>
    /\ calls = [r \in 1..n |-> <<>>]
    /\ outcome = [r \in 1..n |-> NoOutcome]
    /\ response = [r \in 1..n |-> NoResponse]

\* A POST /api/generate arrives with body q (requests are numbered in the order
\* they arrive). FastAPI validates it; generate_prompt runs to its await: it
\* submits the adapter bound to q.provider to the executor.
Submit(r, bodies) ==
    /\ pc[r] = "idle"
    /\ \A s \in Reqs : s < r => pc[s] # "idle"
    /\ \E q \in bodies :
        /\ req' = [req EXCEPT ![r] = q]
        /\ IF ~valid(q)
           THEN /\ pc' = [pc EXCEPT ![r] = "rejected"]
                /\ response' = [response EXCEPT ![r] = validation_error_response]
                /\ UNCHANGED queue
           ELSE IF dispatch(q.provider) = "none"
           THEN /\ pc' = [pc EXCEPT ![r] = "done"]
                /\ response' = [response EXCEPT ![r] =
                       error_response(except_clauses(HTTPException(400, DETAIL_BAD_PROVIDER)))]
                /\ UNCHANGED queue
           ELSE /\ pc' = [pc EXCEPT ![r] = "queued"]
                /\ queue' = Append(queue, [req |-> r, fn |-> dispatch(q.provider)])
                /\ UNCHANGED response
    /\ UNCHANGED <<SYSTEM_PROMPT, calls, outcome>>

\* A free worker thread takes the oldest work item and calls the adapter, which
\* builds its upstream request.
Start(r) ==
    /\ queue # <<>>
    /\ Head(queue).req = r
    /\ worker_free
    /\ queue' = Tail(queue)
    /\ pc' = [pc EXCEPT ![r] = "running"]
    /\ calls' = [calls EXCEPT ![r] =
                    Append(@, upstream_call(Head(queue).fn, req[r], SYSTEM_PROMPT))]
    /\ UNCHANGED <<SYSTEM_PROMPT, req, outcome, response>>

\* the adapter a worker thread is running for request r
adapter_of(r) == calls[r][Len(calls[r])].adapter

\* The provider answers (one of answers[fn] for adapter fn) and the adapter
\* returns or raises: the future is done and the worker thread is free again.
Finish(r, answers) ==
    /\ pc[r] = "running"
    /\ \E up \in answers[adapter_of(r)] :
        outcome' = [outcome EXCEPT ![r] = run_adapter(adapter_of(r), up)]
    /\ pc' = [pc EXCEPT ![r] = "finished"]
    /\ UNCHANGED <<SYSTEM_PROMPT, req, queue, calls, response>>

\* The event loop resumes generate_prompt, which answers the request.
Respond(r) ==
    /\ pc[r] = "finished"
    /\ response' = [response EXCEPT ![r] = resume(outcome[r])]
    /\ pc' = [pc EXCEPT ![r] = "done"]
    /\ UNCHANGED <<SYSTEM_PROMPT, req, queue, calls, outcome>>

\* Finish(r, answers) and then Respond(r) as one step. Respond(r) reads and
\* writes only request r's own outcome, response and pc, so it commutes with
\* every step of another request; PoolSpec, whose requests compete for the
\* worker threads alone, takes the two together.
Complete(r, answers) ==
    /\ pc[r] = "running"
    /\ \E up \in answers[adapter_of(r)] :
        \E out \in {run_adapter(adapter_of(r), up)} :
            /\ outcome' = [outcome EXCEPT ![r] = out]
            /\ response' = [response EXCEPT ![r] = resume(out)]
    /\ pc' = [pc EXCEPT ![r] = "done"]
    /\ UNCHANGED <<SYSTEM_PROMPT, req, queue, calls>>

----------------------------------------------------------------------------
(* Inputs *)

\* "boom"
msg_boom ==
    <<"b", "o", "o", "m">>

\* "Invalid API Key"
msg_api_key ==
    <<"I", "n", "v", "a", "l", "i", "d", " ", "A", "P", "I", " ", "K", "e", "y">>

\* "Authentication failed"
msg_authentication ==
    <<"A", "u", "t", "h", "e", "n", "t", "i", "c", "a", "t", "i", "o", "n", " ", "f", "a", "i", "l", "e", "d">>

\* "Error code: 401"
msg_401 ==
    <<"E", "r", "r", "o", "r", " ", "c", "o", "d", "e", ":", " ", "4", "0", "1">>

\* "Rate limit reached"
msg_rate ==
    <<"R", "a", "t", "e", " ", "l", "i", "m", "i", "t", " ", "r", "e", "a", "c", "h", "e", "d">>

\* "Quota exceeded"
msg_quota ==
    <<"Q", "u", "o", "t", "a", " ", "e", "x", "c", "e", "e", "d", "e", "d">>

\* "429 Too Many"
msg_429 ==
    <<"4", "2", "9", " ", "T", "o", "o", " ", "M", "a", "n", "y">>

\* "Read Timeout"
msg_timeout ==
    <<"R", "e", "a", "d", " ", "T", "i", "m", "e", "o", "u", "t">>

\* "timed out"
msg_timed_out ==
    <<"t", "i", "m", "e", "d", " ", "o", "u", "t">>

\* "rate limit timeout"
msg_rate_timeout ==
    <<"r", "a", "t", "e", " ", "l", "i", "m", "i", "t", " ", "t", "i", "m", "e", "o", "u", "t">>

\* "401 then rate limit"
msg_401_rate ==
    <<"4", "0", "1", " ", "t", "h", "e", "n", " ", "r", "a", "t", "e", " ", "l", "i", "m", "i", "t">>

\* "cannot generate"
msg_generate ==
    <<"c", "a", "n", "n", "o", "t", " ", "g", "e", "n", "e", "r", "a", "t", "e">>

MESSAGES ==
    {msg_boom, msg_api_key, msg_authentication, msg_401, msg_rate, msg_quota,
     msg_429, msg_timeout, msg_timed_out, msg_rate_timeout, msg_401_rate,
     msg_generate}

TEXT_T == <<"T">>

REPLIES == {Reply(TRUE, NoText), Reply(FALSE, NoText), Reply(FALSE, TEXT_T)}

\* the status an openai.APIStatusError subclass stands for
OPENAI_STATUS ==
    ("openai.AuthenticationError" :> 401) @@ ("openai.RateLimitError" :> 429)
    @@ ("openai.BadRequestError" :> 400) @@ ("openai.APITimeoutError" :> 0)
    @@ ("IndexError" :> 0)

HTTP_ERROR_STATUSES == {401, 403, 429, 500}

BODY == <<"{", "}">>

\* every answer of the provider behind adapter fn
answers_of(fn) ==
    REPLIES \cup
    IF fn = "_generate_with_openai"
    THEN {Failure("error", Exc(t, m, OPENAI_STATUS[t], NoText)) :
            t \in DOMAIN OPENAI_STATUS, m \in MESSAGES}
    ELSE IF fn = "_generate_with_claude"
    THEN {Failure("status", Exc("httpx.Response", m, st, BODY)) :
            st \in HTTP_ERROR_STATUSES, m \in MESSAGES}
         \cup {Failure("error", Exc(t, m, 0, NoText)) :
            t \in {"httpx.ReadTimeout", "KeyError"}, m \in MESSAGES}
    ELSE {Failure("error", Exc(t, m, 0, NoText)) :
            t \in {"genai.errors.ClientError", "genai.errors.ServerError",
                   "httpx.ReadTimeout"}, m \in MESSAGES}

\* one answer of each kind: a text, no text, a failure
some_answers_of(fn) ==
    {Reply(TRUE, NoText), Reply(FALSE, TEXT_T)} \cup
    IF fn = "_generate_with_openai"
    THEN {Failure("error", Exc("openai.AuthenticationError", msg_401, 401, NoText))}
    ELSE IF fn = "_generate_with_claude"
    THEN {Failure("status", Exc("httpx.Response", msg_boom, 429, BODY))}
    ELSE {Failure("error", Exc("genai.errors.ClientError", msg_api_key, 0, NoText))}

Body(role_input, provider, api_key, base_url, model) ==
    [role_input |-> role_input, provider |-> provider, api_key |-> api_key,
     base_url |-> base_url, model |-> model]

\* one well-formed body per provider
VALID_BODIES == {Body(1, p, 1, "None", 1) : p \in PROVIDERS}

\* one body per violated constraint
INVALID_BODIES ==
    {Body(0, "openai", 1, "None", 1), Body(role_input_max_length + 1, "claude", 1, "None", 1),
     Body(1, "gemini", 0, "None", 1), Body(1, "claude", 1, "None", 0),
     Body(1, "other", 1, "None", 1)}

\* every body over the boundary values of each field
ALL_BODIES ==
    {Body(n, p, k, u, m) :
        n \in 0..(role_input_max_length + Over),
        p \in PROVIDERS \cup {"other"},
        k \in {0, 1}, u \in {"None", "custom"}, m \in {0, 1}}

ADAPTERS == {"_generate_with_openai", "_generate_with_claude", "_generate_with_gemini"}

ALL_ANSWERS == [fn \in ADAPTERS |-> answers_of(fn)]

SOME_ANSWERS == [fn \in ADAPTERS |-> some_answers_of(fn)]

----------------------------------------------------------------------------
(* Specifications *)

\* NReq concurrent requests, a few bodies and answers of each kind
Next ==
    \/ \E r \in Reqs : Submit(r, VALID_BODIES \cup INVALID_BODIES)
    \/ \E r \in Reqs : Start(r)
    \/ \E r \in Reqs : Finish(r, SOME_ANSWERS)
    \/ \E r \in Reqs : Respond(r)

Spec == Init(NReq) /\ [][Next]_vars

\* one request, every answer of its provider
ClassifyNext ==
    \/ \E r \in Reqs : Submit(r, VALID_BODIES)
    \/ \E r \in Reqs : Start(r)
    \/ \E r \in Reqs : Finish(r, ALL_ANSWERS)
    \/ \E r \in Reqs : Respond(r)

ClassifySpec == Init(1) /\ [][ClassifyNext]_vars

\* one request, every body
ValidateNext ==
    \/ \E r \in Reqs : Submit(r, ALL_BODIES)
    \/ \E r \in Reqs : Start(r)
    \/ \E r \in Reqs : Finish(r, SOME_ANSWERS)
    \/ \E r \in Reqs : Respond(r)

ValidateSpec == Init(1) /\ [][ValidateNext]_vars

\* more requests than worker threads; request r has a fixed body and its
\* provider a fixed answer
PoolN == max_workers + Extra

pool_body(r) ==
    Body(1, IF r % 3 = 0 THEN "openai" ELSE IF r % 3 = 1 THEN "claude" ELSE "gemini",
         1, "None", 1)

pool_answer(r) ==
    IF r % 3 = 0 THEN Reply(FALSE, TEXT_T)
    ELSE IF r % 3 = 1 THEN Reply(TRUE, NoText)
    ELSE Failure("error", Exc("httpx.ReadTimeout", msg_timed_out, 0, NoText))

POOL_ANSWERS(r) == [fn \in ADAPTERS |-> {pool_answer(r)}]

PoolNext ==
    \/ \E r \in Reqs : Submit(r, {pool_body(r)})
    \/ \E r \in Reqs : Start(r)
    \/ \E r \in Reqs : Complete(r, POOL_ANSWERS(r))

\* the executor runs a queued call once a worker thread is free, every adapter
\* call returns or raises, and the event loop resumes the handler whose future
\* is done: while any of these steps is possible, one of them is taken
PoolWork ==
    \/ \E r \in Reqs : Start(r)
    \/ \E r \in Reqs : Complete(r, POOL_ANSWERS(r))

PoolSpec == Init(PoolN) /\ [][PoolNext]_vars /\ WF_vars(PoolWork)


----------------------------------------------------------------------------
(* Claims *)

dispatched(r) == pc[r] \in {"queued", "running", "finished", "done"}

called(r) == pc[r] \in {"running", "finished", "done"}

\* C1 (Spec): every request that is dispatched invokes the one adapter bound to
\* its provider (openai -> _generate_with_openai, claude ->
\* _generate_with_claude, gemini -> _generate_with_gemini) and no other, and
\* invokes it at most once, whether it returns or raises: the work item queued
\* for it names that adapter, a started request has exactly one invocation, and
\* that stays so after the response.
C1_OneAdapterOnce ==
    \A r \in Reqs :
        LET bound == CASE req[r].provider = "openai" -> "_generate_with_openai"
                       [] req[r].provider = "claude" -> "_generate_with_claude"
                       [] req[r].provider = "gemini" -> "_generate_with_gemini"
                       [] OTHER -> "no adapter"
        IN  /\ Len(calls[r]) <= 1
            /\ \A i \in 1..Len(calls[r]) : calls[r][i].adapter = bound
            /\ \A i \in 1..Len(queue) : queue[i].req = r => queue[i].fn = bound
            /\ Cardinality({i \in 1..Len(queue) : queue[i].req = r}) + Len(calls[r]) <= 1
            /\ called(r) => Len(calls[r]) = 1

\* a request whose adapter raised has been answered, another request to a
\* different provider has been answered too
C1_Witness ==
    \E r, s \in Reqs :
        /\ pc[r] = "done" /\ outcome[r].kind = "raise" /\ Len(calls[r]) = 1
        /\ pc[s] = "done" /\ Len(calls[s]) = 1
        /\ req[r].provider = "gemini" /\ req[s].provider = "claude"

\* C2 (ClassifySpec): whatever the provider, a request whose adapter returned
\* the empty string is answered 500 with the empty-result message, never 200;
\* and every 200 response carries a non-empty prompt that is the text the
\* adapter returned.
C2_EmptyIsError ==
    \A r \in Reqs :
        pc[r] = "done" =>
            /\ (outcome[r].kind = "return" /\ Len(outcome[r].text) = 0) =>
                   (response[r].status = 500 /\ response[r].detail = DETAIL_EMPTY)
            /\ response[r].status = 200 =>
                   /\ outcome[r].kind = "return"
                   /\ Len(response[r].prompt) > 0
                   /\ response[r].prompt = outcome[r].text

\* the Gemini adapter returned "" and the request was answered 500
C2_Witness ==
    \E r \in Reqs :
        /\ pc[r] = "done" /\ req[r].provider = "gemini"
        /\ outcome[r].kind = "return" /\ outcome[r].text = <<>>
        /\ response[r].status = 500

\* C5 (ValidateSpec): a body that violates a field constraint (role_input of
\* length 0 or above 500, empty api_key, empty model, provider outside openai,
\* gemini, claude) is rejected and never queued nor handed to an adapter; a body
\* with role_input of any length from 1 to 500 and the other fields well-formed
\* is dispatched.
C5_ValidationBeforeDispatch ==
    \A r \in Reqs :
        LET q == req[r]
            violates == \/ q.role_input = 0
                        \/ q.role_input >= 501
                        \/ q.api_key = 0
                        \/ q.model = 0
                        \/ q.provider \notin {"openai", "gemini", "claude"}
        IN  pc[r] # "idle" =>
                /\ violates =>
                       /\ pc[r] = "rejected"
                       /\ calls[r] = <<>>
                       /\ \A i \in 1..Len(queue) : queue[i].req # r
                       /\ outcome[r] = NoOutcome
                /\ ~violates => dispatched(r)

\* a body with role_input of length exactly 500 went through an adapter
C5_Witness ==
    \E r \in Reqs :
        /\ req[r].role_input = 500
        /\ pc[r] = "done"
        /\ Len(calls[r]) = 1

\* C9 (Spec): after any interleaving of requests, answered, failed or rejected,
\* SYSTEM_PROMPT is the literal of process start and so is the template every
\* upstream request carries.
C9_TemplateUnchanged ==
    /\ SYSTEM_PROMPT = SYSTEM_PROMPT_LITERAL
    /\ \A r \in Reqs :
        \A i \in 1..Len(calls[r]) : template_of(calls[r][i]) = SYSTEM_PROMPT_LITERAL

\* after a request that failed or was rejected, the Gemini adapter was called
\* for a later request, with the template
C9_Witness ==
    \E r, s \in Reqs :
        /\ r < s
        /\ pc[r] = "done" /\ response[r].status \notin {0, 200}
        /\ called(s) /\ req[s].provider = "gemini"
        /\ template_of(calls[s][1]) = SYSTEM_PROMPT_LITERAL


----------------------------------------------------------------------------
(* Claims on the classification of adapter errors (ClassifySpec) *)

\* request r is answered and its adapter raised
failed(r) == pc[r] = "done" /\ outcome[r].kind = "raise"

\* the error is one of the typed errors an except clause names
typed(e) == isinstance(e.type, "openai.APIError") \/ isinstance(e.type, "httpx.HTTPStatusError")

\* C8: every dispatched request that is answered has a status among 200, 401,
\* 429, 502, 504, 500, 400; an adapter that raised, whatever the type and the
\* message, gives one of 401, 429, 502, 504, 500, 400 with a non-empty detail
\* and no uncaught exception, an adapter that returned gives 200 or 500.
C8_EveryFailureConverted ==
    \A r \in Reqs :
        (pc[r] = "done" /\ Len(calls[r]) > 0) =>
            /\ outcome[r].kind \in {"return", "raise"}
            /\ outcome[r].kind = "raise" =>
                   /\ response[r].status \in {401, 429, 502, 504, 500, 400}
                   /\ Len(response[r].detail) > 0
            /\ outcome[r].kind = "return" => response[r].status \in {200, 500}
            /\ response[r].status # 200 => Len(response[r].detail) > 0

\* an error outside the typed clauses (httpx.ReadTimeout through the Anthropic
\* adapter) was answered 504
C8_Witness ==
    \E r \in Reqs :
        /\ failed(r)
        /\ outcome[r].exc.type = "httpx.ReadTimeout"
        /\ response[r].status = 504

\* C3 as claimed: an authentication-flavored error (openai.AuthenticationError,
\* an HTTP status error with status 401, or an error of any type whose message
\* indicates 401 or an invalid API key) is answered 401.
C3_AuthAlways401 ==
    \A r \in Reqs :
        LET e == outcome[r].exc
        IN  (failed(r) /\ (\/ isinstance(e.type, "openai.AuthenticationError")
                           \/ (isinstance(e.type, "httpx.HTTPStatusError") /\ e.status_code = 401)
                           \/ is_auth_msg(e.msg)))
                => response[r].status = 401

\* C3 amended: openai.AuthenticationError, an HTTP status error with status
\* 401, and an error that is neither an openai.APIError nor an
\* httpx.HTTPStatusError (every re-wrapped Gemini error is one) whose message
\* contains "authentication" or "api key" (any case) or "401" are answered
\* 401; for the other openai.APIError and HTTP status errors the message does
\* not count.
C3_AuthTypedOrUntypedMessage ==
    \A r \in Reqs :
        LET e == outcome[r].exc
        IN  failed(r) =>
              /\ isinstance(e.type, "openai.AuthenticationError") => response[r].status = 401
              /\ (isinstance(e.type, "httpx.HTTPStatusError") /\ e.status_code = 401)
                     => response[r].status = 401
              /\ (~typed(e) /\ is_auth_msg(e.msg)) => response[r].status = 401
              /\ req[r].provider = "gemini" => (~typed(e) /\ e.type = "Exception")

\* a re-wrapped Gemini error whose message names an invalid API key was
\* answered 401
C3_Witness ==
    \E r \in Reqs :
        /\ failed(r) /\ req[r].provider = "gemini"
        /\ In(<<"A", "P", "I", " ", "K", "e", "y">>, outcome[r].exc.msg)
        /\ response[r].status = 401

\* C4 as claimed: a rate-limit-flavored error (openai.RateLimitError, an HTTP
\* status error with status 429, or an error of any type whose message contains
\* "rate" or "quota" in any case or "429") is answered 429.
C4_RateAlways429 ==
    \A r \in Reqs :
        LET e == outcome[r].exc
        IN  (failed(r) /\ (\/ isinstance(e.type, "openai.RateLimitError")
                           \/ (isinstance(e.type, "httpx.HTTPStatusError") /\ e.status_code = 429)
                           \/ is_rate_msg(e.msg)))
                => response[r].status = 429

\* C4 amended: openai.RateLimitError, an HTTP status error with status 429,
\* and an error that is neither an openai.APIError nor an httpx.HTTPStatusError
\* whose message contains "rate" or "quota" (any case) or "429" and none of
\* "authentication", "api key", "401" are answered 429, also when the message
\* contains "timeout".
C4_RateTypedOrUntypedMessage ==
    \A r \in Reqs :
        LET e == outcome[r].exc
        IN  failed(r) =>
              /\ isinstance(e.type, "openai.RateLimitError") => response[r].status = 429
              /\ (isinstance(e.type, "httpx.HTTPStatusError") /\ e.status_code = 429)
                     => response[r].status = 429
              /\ (~typed(e) /\ is_rate_msg(e.msg) /\ ~is_auth_msg(e.msg))
                     => response[r].status = 429

\* an untyped error whose message contains "rate" and "timeout" was answered 429
C4_Witness ==
    \E r \in Reqs :
        /\ failed(r) /\ ~typed(outcome[r].exc)
        /\ is_rate_msg(outcome[r].exc.msg) /\ is_timeout_msg(outcome[r].exc.msg)
        /\ response[r].status = 429

\* the six rules of the classifier, first match wins
six_rules(e) ==
    IF \/ isinstance(e.type, "openai.AuthenticationError")
       \/ e.status_code = 401
       \/ is_auth_msg(e.msg)
    THEN 401
    ELSE IF e.status_code = 429 \/ is_rate_msg(e.msg)
    THEN 429
    ELSE IF isinstance(e.type, "httpx.HTTPStatusError")
    THEN 502
    ELSE IF isinstance(e.type, "openai.APIError")
    THEN 502
    ELSE IF is_timeout_msg(e.msg)
    THEN 504
    ELSE 500

\* C10 as claimed: for every adapter error the status is that of the six
\* ordered rules.
C10_SixRules ==
    \A r \in Reqs : failed(r) => response[r].status = six_rules(outcome[r].exc)

\* C10 amended: the typed errors are ranked before every message heuristic.
\* openai.AuthenticationError -> 401, openai.RateLimitError -> 429, any other
\* openai.APIError -> 502, httpx.HTTPStatusError -> 401, 429 or 502 by its
\* status alone; only for an error of another type does the message count:
\* authentication / api key / 401 -> 401, else rate / quota / 429 -> 429,
\* else timeout -> 504, else 500.
C10_TypedBeforeHeuristics ==
    \A r \in Reqs :
        LET e == outcome[r].exc
            st == response[r].status
            auth == is_auth_msg(e.msg)
            rate == is_rate_msg(e.msg)
            timeout == is_timeout_msg(e.msg)
        IN  failed(r) =>
              /\ e.type = "openai.AuthenticationError" => st = 401
              /\ e.type = "openai.RateLimitError" => st = 429
              /\ e.type \in {"openai.BadRequestError", "openai.APITimeoutError"} => st = 502
              /\ e.type = "httpx.HTTPStatusError" =>
                    st = (CASE e.status_code = 401 -> 401
                            [] e.status_code = 429 -> 429
                            [] OTHER -> 502)
              /\ ~typed(e) =>
                    /\ auth => st = 401
                    /\ (~auth /\ rate) => st = 429
                    /\ (~auth /\ ~rate /\ timeout) => st = 504
                    /\ (~auth /\ ~rate /\ ~timeout) => st = 500

\* an openai.APIError that is no rate-limit error, with a message that
\* contains "rate", was answered 502
C10_Witness ==
    \E r \in Reqs :
        /\ failed(r)
        /\ outcome[r].exc.type = "openai.BadRequestError"
        /\ is_rate_msg(outcome[r].exc.msg)
        /\ response[r].status = 502


----------------------------------------------------------------------------
(* Claims on the worker pool (PoolSpec) *)

\* C6: with more requests than worker threads, and every adapter call
\* returning or raising, every submitted request is eventually answered, with
\* 200 or a classified error: again and again no request is queued or
\* running (an answered request stays answered).
C6_AllEventuallyAnswered ==
    []<>(\A r \in Reqs :
            \/ pc[r] = "idle"
            \/ /\ pc[r] = "done"
               /\ response[r].status \in {200, 401, 429, 502, 504, 500, 400})

\* more requests than worker threads, all answered
C6_Witness ==
    /\ Cardinality(Reqs) > 10
    /\ \A r \in Reqs : pc[r] = "done" /\ response[r].status # 0

\* C7 as claimed: for any number of adapter calls in flight, the request at
\* the head of the queue can be started without one of them finishing.
C7_NeverWaits ==
    \A r \in Reqs :
        (queue # <<>> /\ Head(queue).req = r) => ENABLED Start(r)

\* C7 amended: while fewer than max_workers (10) adapter calls are in flight,
\* the request at the head of the queue can be started without one of them
\* finishing, and a started request can finish and be answered whatever the
\* other requests do.
C7_FreeWorkerNeverWaits ==
    \A r \in Reqs :
        /\ (/\ queue # <<>>
            /\ Head(queue).req = r
            /\ Cardinality({s \in Reqs : pc[s] = "running"}) < 10)
               => ENABLED Start(r)
        /\ pc[r] = "running" => ENABLED Complete(r, POOL_ANSWERS(r))

\* a request was answered while nine requests that arrived before it are still
\* running
C7_Witness ==
    \E r \in Reqs :
        /\ pc[r] = "done"
        /\ Cardinality({s \in Reqs : s < r /\ pc[s] = "running"}) = 9

====
